---- MODULE Spec2Model ----
(***************************************************************************)
(* Model of the numerical core of src/scripts.js: the body registry        *)
(* (setupDefaultBodies), the force evaluator (computeAccelerations), the   *)
(* velocity-Verlet integrator (velocityVerletStep), the sub-stepping done  *)
(* by renderFrame, the warm-up and the reset.                              *)
(*                                                                         *)
(* Numbers.  The program computes in floating point; the model computes in *)
(* fixed point over the integers:                                          *)
(*   - a time is a whole number of 1/Day days,                             *)
(*   - a position is a whole number of 1/AU astronomical units,            *)
(*   - a velocity and an acceleration are whole numbers of 1/VelScale      *)
(*     position units per day (per day squared),                           *)
(*   - a mass is a whole number of 1/SunMass solar masses.                 *)
(* Every formula is the source's formula over the reals, rounded once      *)
(* (towards zero) where it is stored.  The offered time steps (SpeedValues) *)
(* are those the time unit divides exactly by their own sub-step count.    *)
(*                                                                         *)
(* Scale.  The source keeps 1600 trail points, warms up with 320 steps and *)
(* builds 8 planets and 120 asteroids; the model keeps the same structure  *)
(* with trailLengthDefault, warmSteps, AsteroidCount and the preset list   *)
(* scaled down so that eviction and every body kind occur within the       *)
(* explored runs.                                                          *)
(***************************************************************************)
EXTENDS Integers, Sequences, FiniteSets, TLC

VARIABLES
    sim,        \* the global `sim` object: bodies, trails, timeDays, running, dt, trailLength, warmupDone
    pc,         \* where the script is: "load", "warmup", "idle", "physics", "render", "probe", "probed"
    targetDt,   \* renderFrame's local targetDt of the current tick
    sub,        \* renderFrame's local sub
    subDt,      \* renderFrame's local subDt
    s,          \* renderFrame's loop counter s
    acc,        \* the value returned by the latest computeAccelerations call
    step,       \* history: the stages of the latest velocityVerletStep call (dt, bodies before, evaluations, bodies moved)
    calls,      \* history: the dt arguments of the velocityVerletStep calls of the current tick
    hist,       \* history: per body, every position recorded by a step since the registry was built
    stepSum,    \* history: sum of the dt of every step since the registry was built
    warmSum,    \* history: the part of stepSum applied by warmupSimulation
    frames,     \* history: number of ticks completed
    fresh       \* history: the registry was rebuilt by the step that led here

vars == <<sim, pc, targetDt, sub, subDt, s, acc, step, calls, hist, stepSum, warmSum, frames, fresh>>

----------------------------------------------------------------------------
(* Bounds of the exploration *)

\* ticks explored in one run
MaxTicks == 2
\* CONFIG.trailLengthDefault (1600 in the source), scaled down
trailLengthDefault == 3
\* warmupSimulation's warmSteps (320 in the source), scaled down; as in the source it is below the trail cap
warmSteps == 2
\* the number of asteroids of the synthetic belt (120 in the source), scaled down
AsteroidCount == 1

----------------------------------------------------------------------------
(* Units and program constants *)

\* time units per simulation day
Day == 20
\* position units per AU
AU == 9
\* velocity (acceleration) units per position unit per day (per day squared)
VelScale == 1000
\* mass units per solar mass: the Sun's mass, 1.0 in the source
SunMass == 8
\* CONFIG.G, in model units (position units^3 * VelScale / (mass unit * day^2))
G == 120000
\* CONFIG.artisticGravityScale
artisticGravityScale == 1
\* CONFIG.maxSubSteps
maxSubSteps == 6
\* the 0.9-day per-sub-step ceiling of renderFrame, in time units
SubStepCeiling == 18
\* CONFIG.timeStepPerFrameDefault, 0.65 days, in time units
timeStepPerFrameDefault == 13
\* warmupSimulation's stepSize, 0.6 days, in time units
stepSize == 12
\* the softening term 1e-12 added to the squared distance: the smallest positive squared distance
Softening == 1
\* 2*pi/365.25 AU^1.5 per day of the initial speed 2*pi/sqrt(a)/365.25, in whole position units per day
VK == 31

\* the values the speed control gives sim.dt: -0.6, 0, 1.5, 5.4 and 6 days (each a
\* whole number of time units when divided by its own sub-step count)
SpeedValues == {-12, 0, 30, 108, 120}

\* the starting angles Math.random() * 2 * pi is drawn from: 0 and a quarter turn
Angles == {0, 1}
\* the (angle, radius variation) pairs an asteroid's two draws are taken from; the
\* variation (Math.random() - 0.5) * 0.25 is in position units
AsteroidDraws == {<<0, 1>>, <<1, -1>>}

----------------------------------------------------------------------------
(* Arithmetic helpers *)

Max(a, b) == IF a >= b THEN a ELSE b
Min(a, b) == IF a <= b THEN a ELSE b

\* clamp(v, a, b)
clamp(v, a, b) == Max(a, Min(b, v))

\* a / b rounded towards zero (b > 0)
Quot(a, b) == IF a >= 0 THEN a \div b ELSE -((-a) \div b)

\* Math.ceil(a / b) for b > 0
Ceil(a, b) == -((-a) \div b)

RECURSIVE SqrtSearch(_, _, _)
SqrtSearch(n, lo, hi) ==
    IF lo >= hi THEN lo
    ELSE LET mid == (lo + hi + 1) \div 2
         IN  IF mid * mid <= n THEN SqrtSearch(n, mid, hi) ELSE SqrtSearch(n, lo, mid - 1)

\* Math.sqrt on the grid: the largest d with d*d <= n
Sqrt(n) == SqrtSearch(n, 0, Min(n, 46340))

Cos(k) == CASE k = 0 -> 1 [] k = 1 -> 0 [] k = 2 -> -1 [] OTHER -> 0
Sin(k) == CASE k = 0 -> 0 [] k = 1 -> 1 [] k = 2 -> 0 [] OTHER -> -1

Vec(x, y) == [x |-> x, y |-> y]

----------------------------------------------------------------------------
(* Body class and dataset *)

\* new Body(opts): the fields the physics uses
Body(name, mass, x, y, vx, vy) ==
    [name |-> name, mass |-> mass, r |-> Vec(x, y), v |-> Vec(vx, vy)]

\* the planet presets: an inner planet, the synthetic belt, an outer planet
\* (a in position units: 1.0 AU, 2.8 AU, 5.2 AU)
presets == <<
    [name |-> "Earth",        a |-> AU,             mass |-> 1, synthetic |-> FALSE],
    [name |-> "AsteroidBelt", a |-> (28 * AU) \div 10, mass |-> 1, synthetic |-> TRUE],
    [name |-> "Jupiter",      a |-> (52 * AU) \div 10, mass |-> 2, synthetic |-> FALSE] >>

\* the mass given to every asteroid (3e-12 in the source): the smallest positive mass
asteroidMass == 1

\* what the calls of Math.random() in one setupDefaultBodies can return:
\* a starting angle per planet preset, and an angle and a radius variation per asteroid
RandomDraws ==
    [angle : [{i \in 1..Len(presets) : ~presets[i].synthetic} -> Angles],
     ast   : [1..AsteroidCount -> AsteroidDraws]]

\* vYear / 365.25 with vYear = 2 * pi / sqrt(a), stored in velocity units
speed(a) == VelScale * (VK \div Sqrt(a))

\* one asteroid of the belt (the body of the k loop)
asteroid(p, angle, radiusVariation) ==
    LET a == p.a + radiusVariation
    IN  Body("Asteroid-", asteroidMass,
             Cos(angle) * a, Sin(angle) * a,
             -Sin(angle) * speed(a), Cos(angle) * speed(a))

\* one planet (the tail of the preset loop)
planet(p, angle0) ==
    Body(p.name, p.mass,
         Cos(angle0) * p.a, Sin(angle0) * p.a,
         -Sin(angle0) * speed(p.a), Cos(angle0) * speed(p.a))

RECURSIVE presetLoop(_, _, _)
\* the loop over presets, from preset i on, pushing onto list
presetLoop(i, list, rnd) ==
    IF i > Len(presets) THEN list
    ELSE LET p == presets[i]
         IN  IF p.synthetic
             THEN presetLoop(i + 1,
                    list \o [k \in 1..AsteroidCount |->
                                asteroid(p, rnd.ast[k][1], rnd.ast[k][2])],
                    rnd)
             ELSE presetLoop(i + 1, Append(list, planet(p, rnd.angle[i])), rnd)

RECURSIVE momentum(_, _, _)
\* the sum of mass * velocity component c over bodies[i..]
momentum(list, i, c) ==
    IF i > Len(list) THEN 0
    ELSE list[i].mass * list[i].v[c] + momentum(list, i + 1, c)

\* zero total momentum by nudging the Sun's velocity
zeroMomentum(list) ==
    LET px == momentum(list, 1, "x")
        py == momentum(list, 1, "y")
    IN  [list EXCEPT ![1].v = Vec(Quot(-px, list[1].mass), Quot(-py, list[1].mass))]

\* setupDefaultBodies without clearing sim.bodies first
setupDefaultBodies_keepOld(sm, rnd) ==
    LET sun == Body("Sun", SunMass, 0, 0, 0, 0)
        list == zeroMomentum(presetLoop(1, Append(sm.bodies, sun), rnd))
    IN  [sm EXCEPT !.bodies = list, !.trails = [i \in 1..Len(list) |-> <<>>]]

\* setupDefaultBodies with the Sun's velocity set to +p/m
setupDefaultBodies_noNegate(sm, rnd) ==
    LET sun == Body("Sun", SunMass, 0, 0, 0, 0)
        list == presetLoop(1, <<sun>>, rnd)
        nudged == [list EXCEPT ![1].v = Vec(Quot(momentum(list, 1, "x"), list[1].mass),
                                            Quot(momentum(list, 1, "y"), list[1].mass))]
    IN  [sm EXCEPT !.bodies = nudged, !.trails = [i \in 1..Len(nudged) |-> <<>>]]

\* setupDefaultBodies(): sim.bodies and sim.trails rebuilt from the presets
setupDefaultBodies(sm, rnd) ==
    LET sun == Body("Sun", SunMass, 0, 0, 0, 0)
        list == zeroMomentum(presetLoop(1, <<sun>>, rnd))
    IN  [sm EXCEPT !.bodies = list, !.trails = [i \in 1..Len(list) |-> <<>>]]

----------------------------------------------------------------------------
(* Physics: compute accelerations and integrate *)

\* G * artisticGravityScale / (dist2 * dist) for the displacement (dx, dy), with dist2
\* the softened squared distance: the factor that aOnI / dist and aOnJ / dist share
kernel(dx, dy) ==
    LET dist2 == dx * dx + dy * dy + Softening
        dist  == Sqrt(dist2)
    IN  ((G * artisticGravityScale) \div dist2) \div dist

\* aOnI / dist: the acceleration on i per unit of displacement, from the mass of j
aOnI(bi, bj, k) == k * bj.mass

\* aOnJ computed with the mass of j instead of the mass of i
aOnJ_ownMass(bi, bj, k) == k * bj.mass

\* aOnJ / dist: the acceleration on j per unit of displacement, from the mass of i
aOnJ(bi, bj, k) == k * bi.mass

RECURSIVE pairLoop(_, _, _, _)
\* the double loop over i < j, from the pair (i, j) on, accumulating into a
pairLoop(list, a, i, j) ==
    LET n == Len(list)
    IN  IF i > n THEN a
        ELSE IF j > n THEN pairLoop(list, a, i + 1, i + 2)
        ELSE LET bi  == list[i]
                 bj  == list[j]
                 dx  == bj.r.x - bi.r.x
                 dy  == bj.r.y - bi.r.y
                 k   == kernel(dx, dy)
                 onI == aOnI(bi, bj, k)
                 onJ == aOnJ(bi, bj, k)
             IN  pairLoop(list,
                          [a EXCEPT ![i] = Vec(@.x + onI * dx, @.y + onI * dy),
                                    ![j] = Vec(@.x - onJ * dx, @.y - onJ * dy)],
                          i, j + 1)

\* computeAccelerations(bodies)
computeAccelerations(list) ==
    pairLoop(list, [i \in 1..Len(list) |-> Vec(0, 0)], 1, 2)

\* the position loop of velocityVerletStep: r += v*dt + 0.5*a0*dt*dt
movePositions(list, a0, dt) ==
    [i \in 1..Len(list) |->
        [list[i] EXCEPT !.r = Vec(
            @.x + Quot(2 * Day * list[i].v.x * dt + a0[i].x * dt * dt, 2 * VelScale * Day * Day),
            @.y + Quot(2 * Day * list[i].v.y * dt + a0[i].y * dt * dt, 2 * VelScale * Day * Day))]]

\* the velocity loop with the factor dt forgotten: v += 0.5*(a0+a1)
moveVelocities_noDt(list, a0, a1, dt) ==
    [i \in 1..Len(list) |->
        [list[i] EXCEPT !.v = Vec(
            @.x + Quot(a0[i].x + a1[i].x, 2),
            @.y + Quot(a0[i].y + a1[i].y, 2))]]

\* the velocity loop using a0 alone: v += a0*dt
moveVelocities_a0Only(list, a0, a1, dt) ==
    [i \in 1..Len(list) |->
        [list[i] EXCEPT !.v = Vec(
            @.x + Quot(a0[i].x * dt, Day),
            @.y + Quot(a0[i].y * dt, Day))]]

\* the velocity loop of velocityVerletStep: v += 0.5*(a0+a1)*dt
moveVelocities(list, a0, a1, dt) ==
    [i \in 1..Len(list) |->
        [list[i] EXCEPT !.v = Vec(
            @.x + Quot((a0[i].x + a1[i].x) * dt, 2 * Day),
            @.y + Quot((a0[i].y + a1[i].y) * dt, 2 * Day))]]

\* pushTrail evicting with pop() instead of shift(): the newest point goes
pushTrail_pop(trail, point, cap) ==
    LET pushed == Append(trail, point)
    IN  IF Len(pushed) > cap THEN SubSeq(pushed, 1, Len(pushed) - 1) ELSE pushed

\* push one point on a trail and evict the oldest beyond the cap
pushTrail(trail, point, cap) ==
    LET pushed == Append(trail, point)
    IN  IF Len(pushed) > cap THEN Tail(pushed) ELSE pushed

\* the trail loop skipping the asteroids, as the drawing loop does
updateTrails_skipAsteroids(trails, list, cap) ==
    [i \in 1..Len(list) |->
        IF list[i].name = "Asteroid-" THEN trails[i] ELSE pushTrail(trails[i], list[i].r, cap)]

\* the trail loop of velocityVerletStep
updateTrails(trails, list, cap) ==
    [i \in 1..Len(list) |-> pushTrail(trails[i], list[i].r, cap)]

\* the positions of a list of bodies
positions(list) == [i \in 1..Len(list) |-> list[i].r]

\* no velocityVerletStep call on record
NoStep == [dt |-> 0, pre |-> <<>>, evals |-> <<>>, moved |-> <<>>, kicked |-> <<>>]

\* the statements of velocityVerletStep that move the bodies, in program order:
\* a0 is evaluated, the position loop runs, a1 is evaluated, the velocity loop runs;
\* evals lists the computeAccelerations calls made (where, and what was returned)
verletStages(list, dt) ==
    LET a0     == computeAccelerations(list)
        evals0 == << [at |-> positions(list), out |-> a0] >>
        moved  == movePositions(list, a0, dt)
        a1     == computeAccelerations(moved)
        evals1 == Append(evals0, [at |-> positions(moved), out |-> a1])
        kicked == moveVelocities(moved, a0, a1, dt)
    IN  [dt |-> dt, pre |-> list, evals |-> evals1, moved |-> moved, kicked |-> kicked]

\* velocityVerletStep that does not advance the clock
velocityVerletStep_noClock(sm, dt) ==
    LET a0     == computeAccelerations(sm.bodies)
        moved  == movePositions(sm.bodies, a0, dt)
        a1     == computeAccelerations(moved)
        kicked == moveVelocities(moved, a0, a1, dt)
    IN  [sm EXCEPT !.bodies   = kicked,
                   !.trails   = updateTrails(sm.trails, kicked, sm.trailLength)]

\* velocityVerletStep that records the trail points before it moves the bodies
velocityVerletStep_trailFirst(sm, dt) ==
    LET a0     == computeAccelerations(sm.bodies)
        moved  == movePositions(sm.bodies, a0, dt)
        a1     == computeAccelerations(moved)
        kicked == moveVelocities(moved, a0, a1, dt)
    IN  [sm EXCEPT !.bodies   = kicked,
                   !.trails   = updateTrails(sm.trails, sm.bodies, sm.trailLength),
                   !.timeDays = @ + dt]

\* velocityVerletStep(dt)
velocityVerletStep(sm, dt) ==
    LET st == verletStages(sm.bodies, dt)
    IN  [sm EXCEPT !.bodies   = st.kicked,
                   !.trails   = updateTrails(sm.trails, st.kicked, sm.trailLength),
                   !.timeDays = @ + dt]

RECURSIVE stepTimes(_, _, _)
\* n calls of velocityVerletStep(dt) in sequence
stepTimes(sm, n, dt) ==
    IF n = 0 THEN sm ELSE stepTimes(velocityVerletStep(sm, dt), n - 1, dt)

\* warmupSimulation()
warmupSimulation(sm) ==
    LET warmed == stepTimes(sm, warmSteps, stepSize)
        capped == [i \in 1..Len(warmed.trails) |->
                      LET t == warmed.trails[i]
                      IN  SubSeq(t, Max(1, Len(t) - warmed.trailLength + 1), Len(t))]
    IN  [warmed EXCEPT !.trails = capped, !.timeDays = 0, !.warmupDone = TRUE]

\* resetSimulation cut short before setupDefaultBodies prepares the trails:
\* the registry and the clock are new, the trail list is still the empty one
resetSimulation_noTrailPrep(sm, rnd) ==
    [setupDefaultBodies([sm EXCEPT !.timeDays = 0, !.dt = timeStepPerFrameDefault], rnd)
        EXCEPT !.trails = <<>>]

\* resetSimulation(): the clock, the step and the registry (pan, zoom and starfield are not modelled)
resetSimulation(sm, rnd) ==
    setupDefaultBodies([sm EXCEPT !.timeDays = 0, !.dt = timeStepPerFrameDefault], rnd)

\* sub with Math.floor in place of Math.ceil
subCount_floor(t) == Max(1, Min(maxSubSteps, t \div SubStepCeiling))

\* sub without the cap CONFIG.maxSubSteps
subCount_noCap(t) == Max(1, Ceil(t, SubStepCeiling))

\* renderFrame's sub: Math.max(1, Math.min(CONFIG.maxSubSteps, Math.ceil(targetDt / 0.9)))
subCount(t) == Max(1, Min(maxSubSteps, Ceil(t, SubStepCeiling)))

----------------------------------------------------------------------------
(* The script as a state machine *)

\* `let sim = {...}`; nothing else has run yet
Init ==
    /\ sim = [bodies |-> <<>>, trails |-> <<>>, timeDays |-> 0, running |-> TRUE,
              dt |-> timeStepPerFrameDefault, trailLength |-> trailLengthDefault,
              warmupDone |-> FALSE]
    /\ pc = "load"
    /\ targetDt = 0 /\ sub = 0 /\ subDt = 0 /\ s = 0
    /\ acc = <<>>
    /\ step = NoStep
    /\ calls = <<>>
    /\ hist = <<>>
    /\ stepSum = 0 /\ warmSum = 0
    /\ frames = 0 /\ fresh = FALSE

\* the top-level call setupDefaultBodies() while the script loads
LoadSetup ==
    /\ pc = "load"
    /\ \E rnd \in RandomDraws : sim' = setupDefaultBodies(sim, rnd)
    /\ pc' = "warmup"
    /\ hist' = [i \in 1..Len(sim'.bodies) |-> <<>>]
    /\ stepSum' = 0 /\ warmSum' = 0
    /\ acc' = <<>>
    /\ step' = NoStep
    /\ UNCHANGED <<targetDt, sub, subDt, s, calls, frames>>
    /\ fresh' = TRUE

\* the top-level call warmupSimulation() while the script loads
LoadWarmup ==
    /\ pc = "warmup"
    /\ sim' = warmupSimulation(sim)
    /\ pc' = "idle"
    /\ hist' = [i \in 1..Len(sim.bodies) |->
                   hist[i] \o [k \in 1..warmSteps |-> stepTimes(sim, k, stepSize).bodies[i].r]]
    /\ stepSum' = stepSum + warmSteps * stepSize
    /\ warmSum' = warmSum + warmSteps * stepSize
    /\ acc' = computeAccelerations(sim'.bodies)
    /\ step' = verletStages(stepTimes(sim, warmSteps - 1, stepSize).bodies, stepSize)
    /\ UNCHANGED <<targetDt, sub, subDt, s, calls, frames>>
    /\ fresh' = FALSE

\* renderFrame without the `if (sim.running)` gate
FrameBegin_noGate ==
    /\ pc = "idle"
    /\ frames < MaxTicks
    /\ calls' = <<>>
    /\ targetDt' = sim.dt
    /\ sub' = subCount(sim.dt)
    /\ subDt' = Quot(sim.dt, subCount(sim.dt))
    /\ s' = 0
    /\ pc' = "physics"
    /\ UNCHANGED <<sim, acc, step, hist, stepSum, warmSum, frames>>
    /\ fresh' = FALSE

\* renderFrame up to the sub-step loop: the running gate, targetDt, sub and subDt
FrameBegin ==
    /\ pc = "idle"
    /\ frames < MaxTicks
    /\ calls' = <<>>
    /\ IF sim.running
       THEN /\ targetDt' = sim.dt
            /\ sub' = subCount(sim.dt)
            /\ subDt' = Quot(sim.dt, subCount(sim.dt))
            /\ s' = 0
            /\ pc' = "physics"
       ELSE /\ pc' = "render"
            /\ UNCHANGED <<targetDt, sub, subDt, s>>
    /\ UNCHANGED <<sim, acc, step, hist, stepSum, warmSum, frames>>
    /\ fresh' = FALSE

\* one iteration of renderFrame's loop: velocityVerletStep(subDt); s++
SubStep ==
    /\ pc = "physics"
    /\ s < sub
    /\ sim' = velocityVerletStep(sim, subDt)
    /\ s' = s + 1
    /\ pc' = IF s + 1 < sub THEN "physics" ELSE "render"
    /\ acc' = computeAccelerations(sim'.bodies)
    /\ step' = verletStages(sim.bodies, subDt)
    /\ calls' = Append(calls, subDt)
    /\ hist' = [i \in 1..Len(sim.bodies) |-> Append(hist[i], sim'.bodies[i].r)]
    /\ stepSum' = stepSum + subDt
    /\ UNCHANGED <<targetDt, sub, subDt, warmSum, frames>>
    /\ fresh' = FALSE

\* the rest of renderFrame: trails, bodies, clock and energy are read and drawn;
\* the frame returns and its locals are gone
Render ==
    /\ pc = "render"
    /\ pc' = "idle"
    /\ frames' = frames + 1
    /\ targetDt' = 0 /\ sub' = 0 /\ subDt' = 0 /\ s' = 0
    /\ calls' = <<>>
    /\ step' = NoStep
    /\ UNCHANGED <<sim, acc, hist, stepSum, warmSum>>
    /\ fresh' = FALSE

\* toggleRunning(), from the space key or the play/pause button
ToggleRunning ==
    /\ pc = "idle"
    /\ sim' = [sim EXCEPT !.running = ~@]
    /\ UNCHANGED <<pc, targetDt, sub, subDt, s, acc, step, calls, hist, stepSum, warmSum, frames>>
    /\ fresh' = FALSE

\* the speedRange input handler: sim.dt = parseFloat(e.target.value)
SpeedInput ==
    /\ pc = "idle"
    /\ \E d \in SpeedValues : sim' = [sim EXCEPT !.dt = d]
    /\ UNCHANGED <<pc, targetDt, sub, subDt, s, acc, step, calls, hist, stepSum, warmSum, frames>>
    /\ fresh' = FALSE

\* the resetBtn click handler: resetSimulation()
ResetClick ==
    /\ pc = "idle"
    /\ \E rnd \in RandomDraws : sim' = resetSimulation(sim, rnd)
    /\ hist' = [i \in 1..Len(sim'.bodies) |-> <<>>]
    /\ stepSum' = 0 /\ warmSum' = 0
    /\ acc' = <<>>
    /\ step' = NoStep
    /\ UNCHANGED <<pc, targetDt, sub, subDt, s, calls, frames>>
    /\ fresh' = TRUE

Next ==
    \/ LoadSetup
    \/ LoadWarmup
    \/ FrameBegin
    \/ SubStep
    \/ Render
    \/ ToggleRunning
    \/ SpeedInput
    \/ ResetClick

Spec == Init /\ [][Next]_vars

----------------------------------------------------------------------------
(* computeAccelerations as a pure function of two arbitrary bodies *)

\* the coordinates and masses the two bodies are drawn from
ProbeRange == 2
ProbeMasses == {1, 2, SunMass}

InitAcc ==
    /\ \E x1, y1 \in -1..1, x2, y2 \in -ProbeRange..ProbeRange, m1, m2 \in ProbeMasses :
          sim = [bodies |-> << Body("i", m1, x1, y1, 0, 0), Body("j", m2, x2, y2, 0, 0) >>,
                 trails |-> << <<>>, <<>> >>, timeDays |-> 0, running |-> FALSE,
                 dt |-> timeStepPerFrameDefault, trailLength |-> trailLengthDefault,
                 warmupDone |-> FALSE]
    /\ pc = "probe"
    /\ targetDt = 0 /\ sub = 0 /\ subDt = 0 /\ s = 0
    /\ acc = <<>>
    /\ step = NoStep
    /\ calls = <<>>
    /\ hist = << <<>>, <<>> >>
    /\ stepSum = 0 /\ warmSum = 0
    /\ frames = 0 /\ fresh = FALSE

\* acc = computeAccelerations(bodies)
ProbeAcc ==
    /\ pc = "probe"
    /\ acc' = computeAccelerations(sim.bodies)
    /\ pc' = "probed"
    /\ UNCHANGED <<sim, targetDt, sub, subDt, s, step, calls, hist, stepSum, warmSum, frames>>
    /\ fresh' = FALSE

NextAcc == ProbeAcc

SpecAcc == InitAcc /\ [][NextAcc]_vars

----------------------------------------------------------------------------
(* Properties *)

RECURSIVE SumSeq(_)
SumSeq(q) == IF q = <<>> THEN 0 ELSE Head(q) + SumSeq(Tail(q))

\* the transition is a step of a tick (FrameBegin, SubStep or Render)
TickStep == pc \in {"physics", "render"} \/ pc' \in {"physics", "render"}

\* the state is the one resetSimulation returned to
AfterReset == fresh /\ pc = "idle"

\* the state is the one a setupDefaultBodies call left (at load or in a reset)
AfterSetup == fresh

\* the bodies the presets stand for: the star, one per planet preset, the belt's asteroids
PresetBodyCount ==
    1 + Cardinality({i \in 1..Len(presets) : ~presets[i].synthetic})
      + AsteroidCount * Cardinality({i \in 1..Len(presets) : presets[i].synthetic})

TotalMomentum(list, c) == SumSeq([i \in 1..Len(list) |-> list[i].mass * list[i].v[c]])

Last(q) == q[Len(q)]

\* C1: when the sub-steps of a tick taken while running with requestedDt > 0 are done,
\* the integrator has been called exactly clamp(ceil(requestedDt / 0.9), 1, maxSubSteps)
\* times, each time with requestedDt / subCount, the calls sum to requestedDt, and
\* requestedDt = 5.4 days gives 6 calls of 0.9 days.
C1_SubStepCount ==
    (pc = "render" /\ sim.running /\ targetDt > 0) =>
        LET n == clamp(Ceil(targetDt, SubStepCeiling), 1, maxSubSteps)
        IN  /\ Len(calls) = n
            /\ \A k \in 1..Len(calls) : calls[k] * n = targetDt
            /\ SumSeq(calls) = targetDt
            /\ targetDt = 6 * SubStepCeiling =>
                  calls = [k \in 1..6 |-> SubStepCeiling]

C1_Witness ==
    /\ pc = "render" /\ sim.running
    /\ targetDt = 6 * SubStepCeiling
    /\ calls = [k \in 1..6 |-> SubStepCeiling]

\* C2: no step of a tick taken while paused calls the integrator or changes a body,
\* a trail or the clock, however many paused ticks follow each other.
C2_PausedTickIsIdentity ==
    [][(TickStep /\ ~sim.running) =>
          (sim' = sim /\ calls' = <<>> /\ stepSum' = stepSum /\ hist' = hist)]_vars

C2_Witness ==
    /\ pc = "render" /\ ~sim.running
    /\ frames = 1
    /\ calls = <<>>
    /\ Len(hist[1]) = warmSteps

\* C3: in every reachable state every trail is at most sim.trailLength long and holds
\* the most recent recorded positions of its body, oldest first.
C3_TrailBoundedFifo ==
    \A i \in 1..Len(sim.trails) :
        LET t == sim.trails[i]
            h == hist[i]
        IN  /\ Len(t) <= sim.trailLength
            /\ Len(t) <= Len(h)
            /\ t = SubSeq(h, Len(h) - Len(t) + 1, Len(h))

C3_Witness ==
    /\ pc = "idle"
    /\ Len(sim.trails) > 0
    /\ \A i \in 1..Len(sim.trails) :
          Len(sim.trails[i]) = sim.trailLength /\ Len(hist[i]) > sim.trailLength
    /\ \E i \in 1..Len(sim.trails) : hist[i][1] # sim.trails[i][1]

\* C4: right after resetSimulation the clock is 0, every trail is empty and the
\* number of bodies is the preset count.
C4_ResetState ==
    AfterReset =>
        /\ sim.timeDays = 0
        /\ Len(sim.trails) = Len(sim.bodies)
        /\ \A i \in 1..Len(sim.trails) : sim.trails[i] = <<>>
        /\ Len(sim.bodies) = PresetBodyCount

C4_Witness ==
    /\ AfterReset
    /\ frames > 0 /\ ~sim.running
    /\ sim.timeDays = 0
    /\ Len(sim.bodies) = PresetBodyCount
    /\ \A i \in 1..Len(sim.trails) : sim.trails[i] = <<>>

\* C5 as stated: at every tick boundary the clock is the sum of the sub-step sizes of
\* all steps applied since the registry was last built.
C5_ClockIsSumOfAllSteps ==
    pc = "idle" => sim.timeDays = stepSum

\* C5 amended: at every tick boundary the clock is the sum of the sub-step sizes of
\* the steps applied since the registry was last built, not counting the steps of the
\* start-up warm-up.
C5_ClockIsSumOfTickSteps ==
    pc = "idle" => sim.timeDays = stepSum - warmSum

C5_Witness ==
    /\ pc = "idle" /\ frames > 0
    /\ warmSum > 0
    /\ sim.timeDays > 0
    /\ sim.timeDays = stepSum - warmSum

\* C6: on a tick taken while running with sim.dt <= 0 no integrator step runs and
\* bodies, trails and clock are left unchanged.
C6_NonPositiveDtRejected ==
    [][(TickStep /\ sim.running /\ sim.dt <= 0) => (sim' = sim /\ calls' = <<>>)]_vars

RECURSIVE ZeroStepsKeepBodies(_, _)
\* n steps with dt = 0 from sm, none of which changes a body
ZeroStepsKeepBodies(sm, n) ==
    \/ n = 0
    \/ LET nxt == velocityVerletStep(sm, 0)
       IN  nxt.bodies = sm.bodies /\ ZeroStepsKeepBodies(nxt, n - 1)

\* C7: from every body configuration in which a tick with sim.dt = 0 can begin,
\* advancing with dt = 0 in up to maxSubSteps steps leaves every body's position and
\* velocity unchanged.
C7_ZeroDtIsIdentity ==
    (pc = "idle" /\ sim.running /\ sim.dt = 0) => ZeroStepsKeepBodies(sim, maxSubSteps)

C7_Witness ==
    /\ pc = "render" /\ sim.running
    /\ targetDt = 0 /\ calls = <<0>>
    /\ \E i \in 1..Len(acc) : acc[i] # Vec(0, 0)
    /\ \E i \in 1..Len(sim.bodies) : sim.bodies[i].v # Vec(0, 0)

\* C8 as stated: the acceleration contributed to i by j and the one contributed to j
\* by i are equal in magnitude and opposite in direction.
C8_EqualAndOpposite ==
    pc = "probed" => (acc[1].x = -acc[2].x /\ acc[1].y = -acc[2].y)

\* C8 amended: the two accelerations are opposite in direction and their magnitudes
\* are in the ratio mass_j : mass_i (mass_i * a_i = -(mass_j * a_j)); the acceleration
\* of i points towards j, and both are zero when the positions coincide.
C8_MassWeightedOpposite ==
    pc = "probed" =>
        LET bi == sim.bodies[1]
            bj == sim.bodies[2]
            dx == bj.r.x - bi.r.x
            dy == bj.r.y - bi.r.y
        IN  /\ bi.mass * acc[1].x = -(bj.mass * acc[2].x)
            /\ bi.mass * acc[1].y = -(bj.mass * acc[2].y)
            /\ acc[1].x * dy = acc[1].y * dx
            /\ acc[1].x * dx >= 0 /\ acc[1].y * dy >= 0
            /\ (dx # 0 \/ dy # 0) => acc[1] # Vec(0, 0)
            /\ (dx = 0 /\ dy = 0) => (acc[1] = Vec(0, 0) /\ acc[2] = Vec(0, 0))

C8_Witness ==
    /\ pc = "probed"
    /\ sim.bodies[1].mass # sim.bodies[2].mass
    /\ sim.bodies[1].r.x # sim.bodies[2].r.x /\ sim.bodies[1].r.y # sim.bodies[2].r.y
    /\ acc[1].x # 0 /\ acc[1].y # 0
    /\ sim.bodies[1].mass * acc[1].x = -(sim.bodies[2].mass * acc[2].x)

\* C9: right after setupDefaultBodies (at load and in a reset), whatever the random
\* angles, the total momentum is zero in both components.
C9_MomentumZeroAfterSetup ==
    AfterSetup =>
        (TotalMomentum(sim.bodies, "x") = 0 /\ TotalMomentum(sim.bodies, "y") = 0)

C9_Witness ==
    /\ AfterSetup
    /\ sim.bodies[1].v.x # 0 /\ sim.bodies[1].v.y # 0
    /\ TotalMomentum(sim.bodies, "x") = 0 /\ TotalMomentum(sim.bodies, "y") = 0

\* C10: when the frame reads the state to draw it, all the sub-steps of the tick have
\* run, and each non-empty trail ends with the current position of its body.
C10_ReadsAfterAllSubSteps ==
    pc = "render" =>
        /\ sim.running => (s = sub /\ Len(calls) = sub /\ \A k \in 1..sub : calls[k] = subDt)
        /\ ~sim.running => calls = <<>>
        /\ \A i \in 1..Len(sim.bodies) :
              sim.trails[i] # <<>> => Last(sim.trails[i]) = sim.bodies[i].r

C10_Witness ==
    /\ pc = "render" /\ sim.running
    /\ sub > 1 /\ s = sub
    /\ \A i \in 1..Len(sim.bodies) :
          /\ Len(sim.trails[i]) > 1
          /\ Last(sim.trails[i]) = sim.bodies[i].r
          /\ sim.trails[i][Len(sim.trails[i]) - 1] # sim.bodies[i].r

\* C11: each integrator step evaluates the accelerations exactly twice: a0 at
\* the positions before the step, then every position is advanced by
\* v*dt + 0.5*a0*dt^2 with the velocity it had before the step, then a1 at the
\* advanced positions, then every velocity is advanced by 0.5*(a0+a1)*dt.
C11_VerletOrder ==
    step.evals # <<>> =>
        LET dt == step.dt
            pre == step.pre
            moved == step.moved
            post == sim.bodies
            N == Len(pre)
        IN  /\ Len(step.evals) = 2
            /\ Len(moved) = N /\ Len(post) = N
            /\ step.evals[1].at = positions(pre)
            /\ step.evals[1].out = computeAccelerations(pre)
            /\ step.evals[2].at = positions(moved)
            /\ step.evals[2].out = computeAccelerations(moved)
            /\ \A i \in 1..N : \A c \in {"x", "y"} :
                  LET a0 == step.evals[1].out[i][c]
                      a1 == step.evals[2].out[i][c]
                  IN  /\ moved[i].v[c] = pre[i].v[c]
                      /\ moved[i].r[c] = pre[i].r[c]
                            + Quot(2 * Day * pre[i].v[c] * dt + a0 * dt * dt, 2 * VelScale * Day * Day)
                      /\ post[i].r[c] = moved[i].r[c]
                      /\ post[i].v[c] = pre[i].v[c] + Quot((a0 + a1) * dt, 2 * Day)

\* a tick's step with dt > 0 after which some body's velocity is neither what
\* a0 alone nor what a1 alone would have given, and whose position moved by
\* its old velocity, not its new one
C11_Witness ==
    /\ pc \in {"physics", "render"}
    /\ Len(step.evals) = 2
    /\ step.dt > 0
    /\ \E i \in 1..Len(step.pre) : \E c \in {"x", "y"} :
          LET a0 == step.evals[1].out[i][c]
              a1 == step.evals[2].out[i][c]
              dt == step.dt
          IN  /\ a0 # a1
              /\ sim.bodies[i].v[c] # step.pre[i].v[c] + Quot(a0 * dt, Day)
              /\ sim.bodies[i].v[c] # step.pre[i].v[c] + Quot(a1 * dt, Day)
              /\ sim.bodies[i].r[c] # step.pre[i].r[c]
                    + Quot(2 * Day * sim.bodies[i].v[c] * dt + a0 * dt * dt, 2 * VelScale * Day * Day)

\* C12: a reset is one change between ticks.  Every state a tick can start in
\* or run through has one trail per body of a complete registry; no reset
\* lands inside a tick; and the state a reset leaves has the registry, the
\* trails and the clock all reset together.  (The click handler and
\* renderFrame are callbacks of one event loop and each runs to completion.)
C12_ResetAtomic ==
    /\ pc \in {"idle", "physics", "render"} =>
          /\ Len(sim.trails) = Len(sim.bodies)
          /\ Len(sim.bodies) = PresetBodyCount
          /\ Len(hist) = Len(sim.bodies)
    /\ pc \in {"physics", "render"} => ~fresh
    /\ AfterReset =>
          /\ sim.timeDays = 0
          /\ \A i \in 1..Len(sim.trails) : sim.trails[i] = <<>>
          /\ \E rnd \in RandomDraws : sim.bodies = setupDefaultBodies(sim, rnd).bodies
    /\ (pc \in {"idle", "physics", "render"} /\ warmSum = 0) =>
          /\ sim.timeDays = stepSum
          /\ \A i \in 1..Len(sim.trails) : Len(sim.trails[i]) = Min(sim.trailLength, Len(hist[i]))

\* a tick is integrating a registry built by a reset that came after an earlier tick
C12_Witness ==
    /\ pc = "render"
    /\ frames > 0
    /\ warmSum = 0
    /\ calls # <<>>
    /\ stepSum = SumSeq(calls)
    /\ sim.timeDays = stepSum
    /\ \A i \in 1..Len(sim.bodies) : Len(sim.trails[i]) = Len(calls)

\* the number of integrator steps applied to body i since the registry was built
StepsSinceBuilt(i) == Len(hist[i])

\* C13: at every tick boundary every trail, the asteroids' included, has the
\* same length min(sim.trailLength, number of integrator steps applied since
\* the registry was built); so at clock 0 the trails are non-empty after the
\* start-up warm-up and empty after a reset.
C13_TrailLengthIsStepCount ==
    pc = "idle" =>
        /\ \A i \in 1..Len(sim.bodies) :
              /\ StepsSinceBuilt(i) = StepsSinceBuilt(1)
              /\ Len(sim.trails[i]) = Min(sim.trailLength, StepsSinceBuilt(i))
        /\ (warmSum > 0 /\ stepSum = warmSum /\ frames = 0) =>
              /\ sim.timeDays = 0
              /\ \A i \in 1..Len(sim.bodies) : sim.trails[i] # <<>>
        /\ AfterReset =>
              /\ sim.timeDays = 0
              /\ \A i \in 1..Len(sim.bodies) : sim.trails[i] = <<>>

\* a tick boundary with more steps applied than the cap, every trail at the
\* cap, an asteroid among the bodies
C13_Witness ==
    /\ pc = "idle"
    /\ frames > 0
    /\ StepsSinceBuilt(1) > sim.trailLength
    /\ \E i \in 1..Len(sim.bodies) : sim.bodies[i].name = "Asteroid-"
    /\ \A i \in 1..Len(sim.bodies) : Len(sim.trails[i]) = sim.trailLength

\* the largest requested step the sub-stepping keeps under the ceiling: 0.9 * maxSubSteps days
SaturationDt == SubStepCeiling * maxSubSteps

\* C14: in a running tick with a positive requested step, every integrator
\* call gets a sub-step of at most 0.9 days exactly when the requested step
\* is at most 0.9 * maxSubSteps days; above that the count is maxSubSteps
\* and every call gets more than 0.9 days.
C14_SubStepCeiling ==
    (pc \in {"physics", "render"} /\ sim.running /\ targetDt > 0) =>
        /\ sub = subCount(targetDt)
        /\ subDt * sub = targetDt
        /\ \A k \in 1..Len(calls) : calls[k] = subDt
        /\ targetDt <= SaturationDt => subDt <= SubStepCeiling
        /\ targetDt > SaturationDt => (sub = maxSubSteps /\ subDt > SubStepCeiling)

\* a tick whose requested step is above 0.9 * maxSubSteps days has made all
\* its calls, each with more than 0.9 days
C14_Witness ==
    /\ pc = "render"
    /\ sim.running
    /\ targetDt > SaturationDt
    /\ Len(calls) = maxSubSteps
    /\ \A k \in 1..Len(calls) : calls[k] > SubStepCeiling

====
